---------------------------- MODULE Spec2Model ----------------------------
(***************************************************************************)
(* Level1Design (nipype/interfaces/fsl/model.py): the first-level FEAT     *)
(* design generator.  _run_interface walks the runs of the session         *)
(* description; for each run _create_ev_files writes one timing file per   *)
(* condition and regressor and assembles the EV blocks, the                *)
(* orthogonalisation table, the contrast section and the contrast mask;    *)
(* the driver then writes run<i>.fsf.  _list_outputs re-derives the paths. *)
(*                                                                         *)
(* Text is modelled as what the code builds: names and paths are sequences *)
(* of characters, a timing file is the sequence of its lines, a line the   *)
(* sequence of its '%f' fields, and the design text is the sequence of     *)
(* substituted templates (a record naming the template and the keyword     *)
(* arguments of substitute()) and "\n" separators.  Numbers are integers,  *)
(* which '%f' prints with six zero decimals.                               *)
(***************************************************************************)
EXTENDS Integers, Sequences, FiniteSets

(***************************************************************************)
(* Bounds of the input families.                                           *)
(***************************************************************************)
MaxRuns == 2
MaxConds == 2
MaxRegs == 1
MaxEvents == 2
MaxCons == 2

(***************************************************************************)
(* Generic helpers.                                                        *)
(***************************************************************************)
SeqsUpTo(S, n) == UNION {[1..m -> S] : m \in 0..n}

Range(s) == {s[k] : k \in 1..Len(s)}

RECURSIVE Concat(_)
Concat(ss) == IF ss = <<>> THEN <<>> ELSE Head(ss) \o Concat(Tail(ss))

(***************************************************************************)
(* String formatting.                                                      *)
(***************************************************************************)
DigitChars == <<"0", "1", "2", "3", "4", "5", "6", "7", "8", "9">>

RECURSIVE PctD(_)
\* '%d' % n for n >= 0
PctD(n) == IF n < 10 THEN <<DigitChars[n + 1]>>
           ELSE PctD(n \div 10) \o <<DigitChars[(n % 10) + 1]>>

\* '%f' % v for an integer-valued v
PctF(v) == (IF v < 0 THEN <<"-">> ELSE <<>>)
           \o PctD(IF v < 0 THEN -v ELSE v)
           \o <<".", "0", "0", "0", "0", "0", "0">>

\* name.endswith('TD')
EndsWithTD(name) ==
    /\ Len(name) >= 2
    /\ name[Len(name) - 1] = "T"
    /\ name[Len(name)] = "D"

\* os.getcwd()
Cwd == <<"/", "w", "d">>

\* os.path.join(cwd, rel)
PathJoin(cwd, rel) == cwd \o <<"/">> \o rel

\* EvFileName without the ordinal: 'ev_%s_%d.txt' % (name, runidx)
EvFileNameNoOrdinal(cwd, name, runidx, n) ==
    PathJoin(cwd, <<"e", "v", "_">> \o name \o <<"_">> \o PctD(runidx)
                  \o <<".", "t", "x", "t">>)

\* os.path.join(cwd, 'ev_%s_%d_%d.txt' % (name, runidx, n))
EvFileName(cwd, name, runidx, n) ==
    PathJoin(cwd, <<"e", "v", "_">> \o name \o <<"_">> \o PctD(runidx)
                  \o <<"_">> \o PctD(n) \o <<".", "t", "x", "t">>)

\* os.path.join(cwd, 'run%d.fsf' % i)
FsfFileName(cwd, runidx) ==
    PathJoin(cwd, <<"r", "u", "n">> \o PctD(runidx) \o <<".", "f", "s", "f">>)

(***************************************************************************)
(* The inputs: the session description that SpecifyModel wrote (one record *)
(* per run: 'cond' and 'regress' lists, the functional image) and the      *)
(* traits of Level1DesignInputSpec.  A trait that may be undefined, and a  *)
(* local that may be unbound, is a cell: <<>> or <<value>>.  A contrast is *)
(* (name, stat, condition list, weight list); the condition list of an F   *)
(* contrast holds T contrasts instead of names.                            *)
(***************************************************************************)
Undefined == <<>>

\* nipype.utils.misc.isdefined
isdefined(cell) == cell # Undefined

A == <<"A">>
B == <<"B">>
ATD == <<"A", "T", "D">>
R == <<"R">>
Names == {A, B, ATD}

OnsetVals == {0, 10}
DurationVals == {2, 5}
RegressVals == {3, -4}

Condition(name, onset, duration) ==
    [name |-> name, onset |-> onset, duration |-> duration]

Regressor(name, val) == [name |-> name, val |-> val]

RunInfo(cond, regress) ==
    [cond |-> cond, regress |-> regress, scans |-> "func.nii",
     timepoints |-> 120]

TContrast(name, conds, weights) ==
    [name |-> name, stat |-> "T", conds |-> conds, weights |-> weights]

FContrast(name, tcons) == [name |-> name, stat |-> "F", conds |-> tcons]

ConAB == TContrast("A>B", <<A, B>>, <<1, -1>>)
ConATD == TContrast("ATD", <<ATD>>, <<2>>)
ConBA == TContrast("B+R", <<B, R>>, <<1, 3>>)
ConNone == TContrast("none", <<>>, <<>>)
ConF == FContrast("F", <<ConAB, ConATD>>)
ContrastPool == {ConAB, ConATD, ConBA, ConNone, ConF}

\* a contrast tuple whose kind is neither 'T' nor 'F': the Enum traits of the
\* input spec refuse it, the else branch of the counting loop expects it
ConX == [name |-> "X", stat |-> "X", conds |-> <<A>>, weights |-> <<1>>]

DefaultContrasts == <<ConAB, ConATD>>

\* the k-th condition and regressor of a run described by its shape alone
CondNames == <<A, ATD, B>>
RegNames == <<R, B>>
DefaultCond(k) ==
    Condition(CondNames[((k - 1) % Len(CondNames)) + 1], <<0, 10>>, <<2>>)
DefaultReg(k) ==
    Regressor(RegNames[((k - 1) % Len(RegNames)) + 1], <<3, -4>>)
ShapedRun(nc, nr) ==
    RunInfo([k \in 1..nc |-> DefaultCond(k)], [k \in 1..nr |-> DefaultReg(k)])
ShapedRuns == {ShapedRun(nc, nr) : nc \in 0..MaxConds, nr \in 0..MaxRegs}

Inputs(session_info, derivs, contrasts, register, reg_image) ==
    [session_info |-> session_info, derivs |-> derivs,
     contrasts |-> contrasts, register |-> register, reg_image |-> reg_image,
     reg_dof |-> <<12>>]

\* several runs of every shape
WideInputs ==
    {Inputs(si, d, DefaultContrasts, <<FALSE>>, Undefined) :
        si \in SeqsUpTo(ShapedRuns, MaxRuns), d \in BOOLEAN}

\* one run, every choice of condition and regressor names
NamedInputs ==
    {Inputs(<<RunInfo([k \in DOMAIN cn |-> Condition(cn[k], <<0, 10>>, <<2>>)],
                      [k \in DOMAIN rn |-> Regressor(rn[k], <<3, -4>>)])>>,
            d, DefaultContrasts, <<FALSE>>, Undefined) :
        cn \in SeqsUpTo(Names, MaxConds), rn \in SeqsUpTo(Names, MaxRegs),
        d \in BOOLEAN}

\* one run of every shape, every contrast list
ContrastInputs ==
    {Inputs(<<run>>, d, cons, <<FALSE>>, Undefined) :
        run \in ShapedRuns, cons \in SeqsUpTo(ContrastPool, MaxCons),
        d \in BOOLEAN}

\* one run of one condition or one regressor, every onset, duration and
\* value list (the lists of a condition need not agree in length)
TimedInputs ==
    {Inputs(<<RunInfo(<<Condition(A, on, du)>>, <<>>)>>, d,
            DefaultContrasts, <<FALSE>>, Undefined) :
        on \in SeqsUpTo(OnsetVals, MaxEvents),
        du \in SeqsUpTo(DurationVals, MaxEvents), d \in BOOLEAN}
    \cup
    {Inputs(<<RunInfo(<<>>, <<Regressor(R, va)>>)>>, d,
            DefaultContrasts, <<FALSE>>, Undefined) :
        va \in SeqsUpTo(RegressVals, MaxEvents), d \in BOOLEAN}

\* every setting of the registration traits
RegisterInputs ==
    {Inputs(si, FALSE, DefaultContrasts, reg, img) :
        si \in SeqsUpTo({ShapedRun(1, 1)}, MaxRuns),
        reg \in {Undefined, <<FALSE>>, <<TRUE>>},
        img \in {Undefined, <<"ref.nii">>}}

InputSpace ==
    WideInputs \cup NamedInputs \cup ContrastInputs \cup TimedInputs
    \cup RegisterInputs

\* one run of every shape, every contrast list of kinds 'T', 'F' and other,
\* as _run_interface reads it when the list was not validated by the traits
AnyKindInputs ==
    {Inputs(<<run>>, d, cons, <<FALSE>>, Undefined) :
        run \in ShapedRuns, cons \in SeqsUpTo({ConAB, ConF, ConX}, MaxCons),
        d \in BOOLEAN}

(***************************************************************************)
(* The templates.  load_template(...).substitute(...) is the record of     *)
(* the template's name and its keyword arguments.                          *)
(***************************************************************************)
NL == [t |-> "\n"]

EvHrf(ev_num, ev_name, temporalderiv, cond_file) ==
    [t |-> "feat_ev_hrf.tcl", ev_num |-> ev_num, ev_name |-> ev_name,
     temporalderiv |-> temporalderiv, cond_file |-> cond_file]

EvNone(ev_num, ev_name, cond_file) ==
    [t |-> "feat_ev_none.tcl", ev_num |-> ev_num, ev_name |-> ev_name,
     cond_file |-> cond_file]

EvOrtho(c0, c1) == [t |-> "feat_ev_ortho.tcl", c0 |-> c0, c1 |-> c1]

ContrastHeader == [t |-> "feat_contrast_header.tcl"]

ContrastProlog(cnum, ctype, cname) ==
    [t |-> "feat_contrast_prolog.tcl", cnum |-> cnum, ctype |-> ctype,
     cname |-> cname]

ContrastElement(cnum, element, ctype, val) ==
    [t |-> "feat_contrast_element.tcl", cnum |-> cnum, element |-> element,
     ctype |-> ctype, val |-> val]

ContrastmaskHeader == [t |-> "feat_contrastmask_header.tcl"]

ContrastmaskElement(c1, c2) ==
    [t |-> "feat_contrastmask_element.tcl", c1 |-> c1, c2 |-> c2]

ContrastmaskFooter == [t |-> "feat_contrastmask_footer.tcl"]

FsfHeader(run_num, num_vols, nevs, ntcon, nfcon, func_file, reg) ==
    [t |-> "feat_header_l1.tcl", run_num |-> run_num, num_vols |-> num_vols,
     num_evs |-> nevs[1], num_evs_real |-> nevs[2], num_tcon |-> ntcon,
     num_fcon |-> nfcon, func_file |-> func_file, register |-> reg[1],
     reg_image |-> reg[2], reg_dof |-> reg[3]]

FsfPostscript(overwrite) == [t |-> "feat_nongui.tcl", overwrite |-> overwrite]

(***************************************************************************)
(* _create_ev_file and the event records of _create_ev_files.              *)
(***************************************************************************)
\* cond['duration'][j] or cond['duration'][0] is out of range for some onset
CondRaises(cond) ==
    \E j \in 1..Len(cond.onset) :
        IF Len(cond.duration) > 1 THEN j > Len(cond.duration)
        ELSE Len(cond.duration) = 0

\* CondEvInfo with a single duration given to the first onset only
CondEvInfoFirstOnly(cond) ==
    [j \in 1..Len(cond.onset) |->
        <<cond.onset[j],
          IF Len(cond.duration) > 1 THEN cond.duration[j]
          ELSE (IF j = 1 THEN cond.duration[1] ELSE 0),
          1>>]

\* CondEvInfo with the first duration given to every onset
CondEvInfoShared(cond) ==
    [j \in 1..Len(cond.onset) |-> <<cond.onset[j], cond.duration[1], 1>>]

\* evinfo of a condition: [onset, duration, 1] per onset
CondEvInfo(cond) ==
    [j \in 1..Len(cond.onset) |->
        <<cond.onset[j],
          IF Len(cond.duration) > 1 THEN cond.duration[j]
          ELSE cond.duration[1],
          1>>]

\* evinfo of a regressor: [[j] for j in cond['val']]
RegressEvInfo(reg) == [j \in 1..Len(reg.val) |-> <<reg.val[j]>>]

\* EvFileText writing the first field of every record only
EvFileTextOneField(evinfo) ==
    [k \in 1..Len(evinfo) |-> <<PctF(evinfo[k][1])>>]

\* the lines _create_ev_file writes, each the sequence of its fields
EvFileText(evinfo) ==
    [k \in 1..Len(evinfo) |->
        IF Len(evinfo[k]) = 3
        THEN <<PctF(evinfo[k][1]), PctF(evinfo[k][2]), PctF(evinfo[k][3])>>
        ELSE <<PctF(evinfo[k][1])>>]

(***************************************************************************)
(* The sections _create_ev_files appends after the EV blocks.              *)
(***************************************************************************)
\* OrthoSecond without the baseline: range(1, n + 1)
OrthoSecondNoBaseline(n) == [j \in 1..n |-> j]

\* the second index of the orthogonalisation loop: range(0, n + 1)
OrthoSecond(n) == [j \in 1..(n + 1) |-> j - 1]

OrthoTxt(n) ==
    Concat([i \in 1..n |->
        Concat([j \in 1..Len(OrthoSecond(n)) |->
            <<EvOrtho(i, OrthoSecond(n)[j]), NL>>])])

\* evname[c - 1] in con[2]: a name is never equal to a T contrast tuple,
\* the element of an F contrast's list
NameIn(name, con) ==
    /\ con.stat # "F"
    /\ \E k \in 1..Len(con.conds) : con.conds[k] = name

\* con[2].index(name)
IndexOf(list, x) ==
    CHOOSE k \in 1..Len(list) :
        list[k] = x /\ \A j \in 1..(k - 1) : list[j] # x

\* ContrastVal giving an F contrast the weight of the first of its T
\* contrasts that names the EV
ContrastValThroughF(name, con) ==
    IF con.stat = "F"
    THEN (IF \E k \in 1..Len(con.conds) : NameIn(name, con.conds[k])
          THEN LET t == con.conds[CHOOSE k \in 1..Len(con.conds) :
                                     NameIn(name, con.conds[k])]
               IN  t.weights[IndexOf(t.conds, name)]
          ELSE 0)
    ELSE (IF NameIn(name, con) THEN con.weights[IndexOf(con.conds, name)]
          ELSE 0)

\* ContrastVal reading the first weight for every named EV
ContrastValFirst(name, con) ==
    IF NameIn(name, con) THEN con.weights[1] ELSE 0

ContrastVal(name, con) ==
    IF NameIn(name, con) THEN con.weights[IndexOf(con.conds, name)] ELSE 0

\* SkipColumn skipping the derivative columns in both passes
SkipColumnBoth(name, ctype) == EndsWithTD(name)

\* the 'continue' of the column loop
SkipColumn(name, ctype) == EndsWithTD(name) /\ ctype = "orig"

RECURSIVE ContrastRow(_, _, _, _, _, _)
\* the column loop of one contrast, from column c with count elements emitted
ContrastRow(names, con, cnum, ctype, c, count) ==
    IF c > Len(names) THEN <<>>
    ELSE IF SkipColumn(names[c], ctype)
         THEN ContrastRow(names, con, cnum, ctype, c + 1, count)
         ELSE <<ContrastElement(cnum, count + 1, ctype,
                                ContrastVal(names[c], con)), NL>>
              \o ContrastRow(names, con, cnum, ctype, c + 1, count + 1)

ContrastPass(names, cons, ctype) ==
    Concat([j \in 1..Len(cons) |->
        <<ContrastProlog(j, ctype, cons[j].name)>>
        \o ContrastRow(names, cons[j], j, ctype, 1, 0)])

\* ContrastTxt with the 'orig' pass before the 'real' pass
ContrastTxtOrigFirst(names, cons) ==
    ContrastPass(names, cons, "orig") \o ContrastPass(names, cons, "real")

\* the loop over ctype of line 176
ContrastTxt(names, cons) ==
    ContrastPass(names, cons, "real") \o ContrastPass(names, cons, "orig")

\* MaskPair keeping one element per unordered pair
MaskPairOnce(j, k) == j < k

\* whether the mask loop emits the element of (j, k)
MaskPair(j, k) == j # k

MaskTxt(cons) ==
    Concat([j \in 1..Len(cons) |->
        Concat([k \in 1..Len(cons) |->
            IF MaskPair(j, k) THEN <<ContrastmaskElement(j, k)>> ELSE <<>>])])

\* SectionsTxt leaving the contrast and mask sections out when there is
\* no contrast
SectionsTxtNoEmpty(nevs, names, cons) ==
    IF cons = <<>> THEN OrthoTxt(nevs[1])
    ELSE OrthoTxt(nevs[1])
         \o <<ContrastHeader>> \o ContrastTxt(names, cons)
         \o <<ContrastmaskHeader>> \o MaskTxt(cons) \o <<ContrastmaskFooter>>

\* lines 169-201: everything after the EV blocks
SectionsTxt(nevs, names, cons) ==
    OrthoTxt(nevs[1])
    \o <<ContrastHeader>> \o ContrastTxt(names, cons)
    \o <<ContrastmaskHeader>> \o MaskTxt(cons) \o <<ContrastmaskFooter>>

\* CountStat taking every contrast that is not an F contrast for a T contrast
CountStatOther(cons, stat) ==
    Cardinality({k \in 1..Len(cons) :
        IF stat = "T" THEN cons[k].stat # "F" ELSE cons[k].stat = stat})

\* the number of contrasts of one kind: the if / elif / else of lines 238-243
CountStat(cons, stat) == Cardinality({k \in 1..Len(cons) : cons[k].stat = stat})

(***************************************************************************)
(* The state: the inputs, the position of the interface (pc), the locals   *)
(* of _run_interface (usetd, n_tcon, n_fcon, register, reg_image, reg_dof, *)
(* the run index i) and of the running _create_ev_files (the number k of   *)
(* conditions and regressors done, evname, num_evs, ev_txt), the files     *)
(* written so far in the order of their writing (disk; kind, run and idx   *)
(* record which run's document, condition or regressor a file was written  *)
(* for), the outputs _list_outputs returned, and the exception raised.     *)
(***************************************************************************)
VARIABLES inputs, pc, usetd, n_tcon, n_fcon, register, reg_image, reg_dof,
          i, k, evname, num_evs, ev_txt, disk, outputs, err

vars == <<inputs, pc, usetd, n_tcon, n_fcon, register, reg_image, reg_dof,
          i, k, evname, num_evs, ev_txt, disk, outputs, err>>

driver == <<usetd, n_tcon, n_fcon, register, reg_image, reg_dof>>
callee == <<k, evname, num_evs, ev_txt>>

Init ==
    /\ inputs \in InputSpace
    /\ pc = "start"
    /\ usetd = 0
    /\ n_tcon = 0
    /\ n_fcon = 0
    /\ register = <<>>
    /\ reg_image = <<>>
    /\ reg_dof = <<>>
    /\ i = 0
    /\ k = 0
    /\ evname = <<>>
    /\ num_evs = <<0, 0>>
    /\ ev_txt = <<>>
    /\ disk = <<>>
    /\ outputs = [fsf_files |-> <<>>, ev_files |-> <<>>]
    /\ err = "none"

\* the run the loop of _run_interface is at
RunAt(n) == inputs.session_info[n + 1]

\* NumEntities counting the conditions only
NumEntitiesCondOnly(run) == Len(run.cond)

NumEntities(run) == Len(run.cond) + Len(run.regress)

\* FSLInfo.standard_image('MNI152_T1_2mm_brain.nii.gz')
StandardImage == "MNI152_T1_2mm_brain.nii.gz"

\* entering _create_ev_files for run n (lines 124-138), or leaving the loop
EnterRun(n) ==
    /\ i' = n
    /\ IF n < Len(inputs.session_info)
       THEN /\ pc' = "evs"
            /\ k' = 0
            /\ evname' = <<>>
            /\ num_evs' = <<0, 0>>
            /\ ev_txt' = <<>>
       ELSE /\ pc' = "done"
            /\ UNCHANGED callee

\* Raise with the exception caught where it is raised: the error is noted
\* and the interface goes on from where it was
RaiseSwallowed(kind) ==
    /\ pc' = pc
    /\ err' = kind

Raise(kind) ==
    /\ pc' = "raised"
    /\ err' = kind

\* lines 221-254 of _run_interface
RunInterfaceInit ==
    /\ pc = "start"
    /\ usetd' = IF inputs.derivs THEN 1 ELSE 0
    /\ n_tcon' = CountStat(inputs.contrasts, "T")
    /\ n_fcon' = CountStat(inputs.contrasts, "F")
    /\ IF isdefined(inputs.register)
       THEN /\ register' = <<IF inputs.register[1] THEN 1 ELSE 0>>
            /\ reg_image' =
                 IF inputs.register[1]
                 THEN (IF isdefined(inputs.reg_image) THEN inputs.reg_image
                       ELSE <<StandardImage>>)
                 ELSE <<"">>
            /\ reg_dof' = IF inputs.register[1] THEN inputs.reg_dof ELSE <<0>>
       ELSE UNCHANGED <<register, reg_image, reg_dof>>
    /\ EnterRun(0)
    /\ UNCHANGED <<inputs, disk, outputs, err>>

\* the file _create_ev_file writes for an EV
EvFile(path, evinfo, kind, idx) ==
    [path |-> path, text |-> EvFileText(evinfo), kind |-> kind, run |-> i,
     idx |-> idx]

\* CondNamesAllocated with the derivative allocated before its condition
CondNamesAllocatedTDFirst(name, td) ==
    IF td = 1 THEN <<name \o <<"T", "D">>, name>> ELSE <<name>>

\* the names allocated by one condition: its own, then its derivative's
CondNamesAllocated(name, td) ==
    IF td = 1 THEN <<name, name \o <<"T", "D">>>> ELSE <<name>>

\* CondCounts with the derivative EV left uncounted
CondCountsNoDeriv(nevs, td) == <<nevs[1] + 1, nevs[2] + 1>>

\* CondCounts with the derivative EV counted as a primary EV as well
CondCountsBoth(nevs, td) ==
    <<nevs[1] + 1 + (IF td = 1 THEN 1 ELSE 0),
      nevs[2] + 1 + (IF td = 1 THEN 1 ELSE 0)>>

\* the counts after one condition
CondCounts(nevs, td) == <<nevs[1] + 1, nevs[2] + 1 + (IF td = 1 THEN 1 ELSE 0)>>

\* one iteration of the loop of lines 139-168 over runinfo['cond']
CreateCondEv ==
    /\ pc = "evs"
    /\ k < Len(RunAt(i).cond)
    /\ LET cond == RunAt(i).cond[k + 1]
           name == cond.name
           evfname == EvFileName(Cwd, name, i, Len(evname) + 1)
       IN  \/ /\ CondRaises(cond)
              /\ Raise("IndexError")
              /\ UNCHANGED <<callee, disk>>
           \/ /\ ~CondRaises(cond)
              /\ Raise("IOError")
              /\ UNCHANGED <<callee, disk>>
           \/ /\ ~CondRaises(cond)
              /\ evname' = evname \o CondNamesAllocated(name, usetd)
              /\ num_evs' = CondCounts(num_evs, usetd)
              /\ ev_txt' = ev_txt \o <<EvHrf(num_evs[1] + 1, name, usetd,
                                             evfname), NL>>
              /\ disk' = Append(disk, EvFile(evfname, CondEvInfo(cond),
                                             "cond", k + 1))
              /\ k' = k + 1
              /\ pc' = IF k + 1 = NumEntities(RunAt(i)) THEN "sections"
                       ELSE "evs"
              /\ UNCHANGED err
    /\ UNCHANGED <<inputs, driver, i, outputs>>

\* one iteration of the loop of lines 139-168 over runinfo['regress']
CreateRegressEv ==
    /\ pc = "evs"
    /\ k >= Len(RunAt(i).cond)
    /\ k < NumEntities(RunAt(i))
    /\ LET idx == k + 1 - Len(RunAt(i).cond)
           reg == RunAt(i).regress[idx]
           name == reg.name
           evfname == EvFileName(Cwd, name, i, Len(evname) + 1)
       IN  \/ /\ Raise("IOError")
              /\ UNCHANGED <<callee, disk>>
           \/ /\ evname' = Append(evname, name)
              /\ num_evs' = <<num_evs[1] + 1, num_evs[2] + 1>>
              /\ ev_txt' = ev_txt \o <<EvNone(num_evs[1] + 1, name, evfname),
                                       NL>>
              /\ disk' = Append(disk, EvFile(evfname, RegressEvInfo(reg),
                                             "regress", idx))
              /\ k' = k + 1
              /\ pc' = IF k + 1 = NumEntities(RunAt(i)) THEN "sections"
                       ELSE "evs"
              /\ UNCHANGED err
    /\ UNCHANGED <<inputs, driver, i, outputs>>

\* a run with neither conditions nor regressors: the loops do nothing
CreateNoEv ==
    /\ pc = "evs"
    /\ NumEntities(RunAt(i)) = 0
    /\ pc' = "sections"
    /\ UNCHANGED <<inputs, driver, i, callee, disk, outputs, err>>

\* lines 169-202 of _create_ev_files, to its return
CreateEvFilesSections ==
    /\ pc = "sections"
    /\ ev_txt' = ev_txt \o SectionsTxt(num_evs, evname, inputs.contrasts)
    /\ pc' = "fsf"
    /\ UNCHANGED <<inputs, driver, i, k, evname, num_evs, disk, outputs, err>>

\* the design document of the run
FsfFile ==
    [path |-> FsfFileName(Cwd, i),
     text |-> <<FsfHeader(i, RunAt(i).timepoints, num_evs, n_tcon, n_fcon,
                          RunAt(i).scans,
                          <<register[1], reg_image[1], reg_dof[1]>>)>>
              \o ev_txt \o <<FsfPostscript(1)>>,
     kind |-> "fsf", run |-> i, idx |-> 0]

\* lines 259-279 of _run_interface, and the step of its loop
WriteFsf ==
    /\ pc = "fsf"
    /\ \/ /\ Raise("IOError")
          /\ UNCHANGED <<i, callee, disk>>
       \/ /\ register = <<>>
          /\ Raise("UnboundLocalError")
          /\ UNCHANGED <<i, callee, disk>>
       \/ /\ register # <<>>
          /\ disk' = Append(disk, FsfFile)
          /\ EnterRun(i + 1)
          /\ UNCHANGED err
    /\ UNCHANGED <<inputs, driver, outputs>>

\* the timing-file paths _list_outputs derives for one run
ListedEvFiles(runno, runinfo) ==
    LET names == [n \in 1..NumEntities(runinfo) |->
                    IF n <= Len(runinfo.cond) THEN runinfo.cond[n].name
                    ELSE runinfo.regress[n - Len(runinfo.cond)].name]
    IN  [n \in 1..Len(names) |-> EvFileName(Cwd, names[n], runno, n)]

\* _list_outputs, called once _run_interface has returned
ListOutputs ==
    /\ pc = "done"
    /\ outputs' =
         [fsf_files |-> [n \in 1..Len(inputs.session_info) |->
                            FsfFileName(Cwd, n - 1)],
          ev_files |-> Concat([n \in 1..Len(inputs.session_info) |->
                            ListedEvFiles(n - 1, inputs.session_info[n])])]
    /\ pc' = "listed"
    /\ UNCHANGED <<inputs, driver, i, callee, disk, err>>

Next ==
    \/ RunInterfaceInit
    \/ CreateCondEv
    \/ CreateRegressEv
    \/ CreateNoEv
    \/ CreateEvFilesSections
    \/ WriteFsf
    \/ ListOutputs

Spec == Init /\ [][Next]_vars

\* the interface run on a contrast list of any kinds
InitAnyKind ==
    /\ inputs \in AnyKindInputs
    /\ pc = "start"
    /\ usetd = 0
    /\ n_tcon = 0
    /\ n_fcon = 0
    /\ register = <<>>
    /\ reg_image = <<>>
    /\ reg_dof = <<>>
    /\ i = 0
    /\ k = 0
    /\ evname = <<>>
    /\ num_evs = <<0, 0>>
    /\ ev_txt = <<>>
    /\ disk = <<>>
    /\ outputs = [fsf_files |-> <<>>, ev_files |-> <<>>]
    /\ err = "none"

SpecAnyKind == InitAnyKind /\ [][Next]_vars

(***************************************************************************)
(* What the claims read: the files written, the rows of the emitted text,  *)
(* and the EVs a run description calls for.                                *)
(***************************************************************************)
\* the paths of the timing files written, in the order of their writing
WrittenEvPaths ==
    LET evs == SelectSeq(disk, LAMBDA f : f.kind # "fsf")
    IN  [n \in 1..Len(evs) |-> evs[n].path]

\* the paths of the design documents written, in the order of their writing
WrittenFsfPaths ==
    LET docs == SelectSeq(disk, LAMBDA f : f.kind = "fsf")
    IN  [n \in 1..Len(docs) |-> docs[n].path]

\* the weight elements of contrast cnum in one pass, in the order emitted
RowOf(txt, ctype, cnum) ==
    SelectSeq(txt, LAMBDA x : /\ x.t = "feat_contrast_element.tcl"
                              /\ x.ctype = ctype
                              /\ x.cnum = cnum)

TemplatesOf(txt, template) == SelectSeq(txt, LAMBDA x : x.t = template)

\* the names of the primary EVs of a run: conditions, then regressors
PrimaryEvNames(runinfo) ==
    [n \in 1..Len(runinfo.cond) |-> runinfo.cond[n].name]
    \o [n \in 1..Len(runinfo.regress) |-> runinfo.regress[n].name]

\* the names of all EVs of a run: a derivative follows its condition
AllEvNames(runinfo, derivs) ==
    Concat([n \in 1..Len(runinfo.cond) |->
              IF derivs
              THEN <<runinfo.cond[n].name, runinfo.cond[n].name \o <<"T", "D">>>>
              ELSE <<runinfo.cond[n].name>>])
    \o [n \in 1..Len(runinfo.regress) |-> runinfo.regress[n].name]

\* the weight a contrast declares for an EV name, 0 when it names it not
DeclaredWeight(con, name) ==
    IF con.stat # "F" /\ \E n \in 1..Len(con.conds) : con.conds[n] = name
    THEN con.weights[CHOOSE n \in 1..Len(con.conds) : con.conds[n] = name]
    ELSE 0

\* _create_ev_files has returned for run i
Returned == pc = "fsf"

(***************************************************************************)
(* C1.  Once _list_outputs has run, the timing-file paths it lists are the *)
(* paths of the timing files written, in the same order, and the design    *)
(* documents it lists are run<i>.fsf for each run, as written.             *)
(***************************************************************************)
C1_ListMirrorsWritten ==
    pc = "listed" =>
        /\ outputs.ev_files = WrittenEvPaths
        /\ outputs.fsf_files = WrittenFsfPaths
        /\ outputs.fsf_files = [n \in 1..Len(inputs.session_info) |->
                                   FsfFileName(Cwd, n - 1)]

(***************************************************************************)
(* C2.  The timing file of a condition with a single duration has one line *)
(* per onset, and line n carries onset n, that duration and 1.             *)
(***************************************************************************)
C2_SingleDuration ==
    \A n \in 1..Len(disk) :
        LET f == disk[n]
            cond == inputs.session_info[f.run + 1].cond[f.idx]
        IN  (f.kind = "cond" /\ Len(cond.duration) = 1) =>
                f.text = [m \in 1..Len(cond.onset) |->
                            <<PctF(cond.onset[m]), PctF(cond.duration[1]),
                              PctF(1)>>]

C2_Witness ==
    \E n \in 1..Len(disk) :
        /\ disk[n].kind = "cond"
        /\ LET cond == inputs.session_info[disk[n].run + 1].cond[disk[n].idx]
           IN  Len(cond.duration) = 1 /\ Len(cond.onset) >= 2

(***************************************************************************)
(* C3.  The timing file of a condition with as many durations as onsets    *)
(* has one line per onset, and line n carries onset n, duration n and 1.   *)
(***************************************************************************)
C3_PairedDurations ==
    \A n \in 1..Len(disk) :
        LET f == disk[n]
            cond == inputs.session_info[f.run + 1].cond[f.idx]
        IN  (f.kind = "cond" /\ Len(cond.duration) = Len(cond.onset)) =>
                f.text = [m \in 1..Len(cond.onset) |->
                            <<PctF(cond.onset[m]), PctF(cond.duration[m]),
                              PctF(1)>>]

C3_Witness ==
    \E n \in 1..Len(disk) :
        /\ disk[n].kind = "cond"
        /\ LET cond == inputs.session_info[disk[n].run + 1].cond[disk[n].idx]
           IN  /\ Len(cond.duration) = Len(cond.onset)
               /\ Len(cond.onset) >= 2
               /\ cond.duration[1] # cond.duration[2]
               /\ cond.onset[1] # cond.onset[2]

(***************************************************************************)
(* C4.  The counts _create_ev_files returns: num_evs[0] is the number of   *)
(* conditions plus regressors, and num_evs[1] exceeds it by the number of  *)
(* conditions when derivatives are on and by nothing when they are off.    *)
(***************************************************************************)
C4_Counts ==
    Returned =>
        /\ num_evs[1] = Len(RunAt(i).cond) + Len(RunAt(i).regress)
        /\ num_evs[2] - num_evs[1] =
              IF inputs.derivs THEN Len(RunAt(i).cond) ELSE 0

C4_Witness ==
    /\ Returned
    /\ inputs.derivs
    /\ Len(RunAt(i).cond) >= 2
    /\ Len(RunAt(i).regress) >= 1

(***************************************************************************)
(* C5.  For every contrast of a returned run: the "real" row has one       *)
(* element per allocated EV, derivatives included, numbered 1..num_evs[1]  *)
(* (num_evs_real); the "orig" row has one element for each EV whose name   *)
(* does not end with 'TD', in order, and none for a name that does.        *)
(***************************************************************************)
NotTDNames(names) == SelectSeq(names, LAMBDA nm : ~EndsWithTD(nm))

C5_PassColumns ==
    Returned =>
        \A j \in 1..Len(inputs.contrasts) :
            LET all == AllEvNames(RunAt(i), inputs.derivs)
                real == RowOf(ev_txt, "real", j)
                orig == RowOf(ev_txt, "orig", j)
                kept == NotTDNames(all)
            IN  /\ Len(real) = Len(all)
                /\ Len(real) = num_evs[2]
                /\ \A c \in 1..Len(real) : real[c].element = c
                /\ Len(orig) = Len(kept)
                /\ \A c \in 1..Len(orig) :
                      /\ orig[c].element = c
                      /\ orig[c].val = DeclaredWeight(inputs.contrasts[j],
                                                      kept[c])

C5_Witness ==
    /\ Returned
    /\ inputs.derivs
    /\ Len(RunAt(i).cond) >= 1
    /\ Len(inputs.contrasts) >= 1
    /\ Len(RowOf(ev_txt, "orig", 1)) >= 1
    /\ Len(RowOf(ev_txt, "orig", 1)) < Len(RowOf(ev_txt, "real", 1))

(***************************************************************************)
(* C6.  For every contrast of a returned run the "orig" row has exactly    *)
(* num_evs[0] (num_evs_primary) elements, numbered from 1, and element n   *)
(* carries the weight of the n-th primary EV.                              *)
(***************************************************************************)
C6_OrigAligned ==
    Returned =>
        \A j \in 1..Len(inputs.contrasts) :
            LET orig == RowOf(ev_txt, "orig", j)
                prim == PrimaryEvNames(RunAt(i))
            IN  /\ Len(orig) = num_evs[1]
                /\ Len(orig) = Len(prim)
                /\ \A c \in 1..Len(orig) :
                      /\ orig[c].element = c
                      /\ orig[c].val = DeclaredWeight(inputs.contrasts[j],
                                                      prim[c])

(***************************************************************************)
(* C7.  In the "real" row of a contrast, the element of each EV column     *)
(* carries the weight the contrast declares for that EV's name, and 0 for  *)
(* an EV the contrast does not name.                                       *)
(***************************************************************************)
C7_RealWeights ==
    Returned =>
        \A j \in 1..Len(inputs.contrasts) :
            LET all == AllEvNames(RunAt(i), inputs.derivs)
                real == RowOf(ev_txt, "real", j)
            IN  /\ Len(real) = Len(all)
                /\ \A c \in 1..Len(real) :
                      real[c].val = DeclaredWeight(inputs.contrasts[j], all[c])

C7_Witness ==
    /\ Returned
    /\ \E j \in 1..Len(inputs.contrasts) :
          LET all == AllEvNames(RunAt(i), inputs.derivs)
              con == inputs.contrasts[j]
          IN  /\ con.stat = "T"
              /\ Len(con.conds) >= 2
              /\ \E c, d \in 1..Len(all) :
                    /\ c < d
                    /\ all[c] = con.conds[2]
                    /\ con.weights[2] # con.weights[1]
                    /\ all[d] \notin Range(con.conds)
                    /\ RowOf(ev_txt, "real", j)[c].val = con.weights[2]
                    /\ RowOf(ev_txt, "real", j)[d].val = 0

(***************************************************************************)
(* C8.  The orthogonalisation table of a returned run has exactly          *)
(* n * (n + 1) directives, n = num_evs[0]: one for each pair (c0, c1) with *)
(* c0 in 1..n and c1 in 0..n, each once, and every nonzero index in it is  *)
(* the number of an EV block, never that of a derivative.                  *)
(***************************************************************************)
EvBlockNumbers(txt) ==
    {txt[n].ev_num : n \in {m \in 1..Len(txt) :
        txt[m].t \in {"feat_ev_hrf.tcl", "feat_ev_none.tcl"}}}

C8_OrthoTable ==
    Returned =>
        LET n == Len(RunAt(i).cond) + Len(RunAt(i).regress)
            ortho == TemplatesOf(ev_txt, "feat_ev_ortho.tcl")
        IN  /\ num_evs[1] = n
            /\ Len(ortho) = n * (n + 1)
            /\ {<<ortho[m].c0, ortho[m].c1>> : m \in 1..Len(ortho)}
                  = (1..n) \X (0..n)
            /\ \A m \in 1..Len(ortho) :
                  /\ ortho[m].c0 \in EvBlockNumbers(ev_txt)
                  /\ ortho[m].c1 \in EvBlockNumbers(ev_txt) \cup {0}

C8_Witness ==
    /\ Returned
    /\ inputs.derivs
    /\ Len(RunAt(i).cond) >= 2
    /\ num_evs[2] > num_evs[1]
    /\ Len(TemplatesOf(ev_txt, "feat_ev_ortho.tcl")) >= 6

(***************************************************************************)
(* C9.  The contrast mask of a returned run has exactly n * (n - 1)        *)
(* elements for n contrasts: one for each ordered pair of distinct         *)
(* contrast numbers, none for a contrast with itself, none when n <= 1.    *)
(***************************************************************************)
C9_MaskPairs ==
    Returned =>
        LET n == Len(inputs.contrasts)
            mask == TemplatesOf(ev_txt, "feat_contrastmask_element.tcl")
        IN  /\ Len(mask) = n * (n - 1)
            /\ {<<mask[m].c1, mask[m].c2>> : m \in 1..Len(mask)}
                  = {p \in (1..n) \X (1..n) : p[1] # p[2]}
            /\ (n <= 1 => mask = <<>>)

C9_Witness ==
    /\ Returned
    /\ Len(inputs.contrasts) >= 2
    /\ Len(TemplatesOf(ev_txt, "feat_contrastmask_element.tcl")) >= 2

(***************************************************************************)
(* C10.  With no contrast, the sections step of _create_ev_files raises    *)
(* nothing and returns a text that ends, right after the orthogonalisation *)
(* table, with the contrast header, the mask header and the mask footer,   *)
(* nothing between them.  (As first stated: with the contrast header and   *)
(* a contrast footer, then the mask header and the mask footer.)           *)
(***************************************************************************)
\* the text after the last orthogonalisation directive and its separator
AfterOrtho(txt) ==
    LET last == {m \in 1..Len(txt) : txt[m].t \in
                    {"feat_ev_ortho.tcl", "feat_ev_hrf.tcl", "feat_ev_none.tcl"}}
        from == IF last = {} THEN 1
                ELSE (CHOOSE m \in last : \A q \in last : q <= m) + 2
    IN  SubSeq(txt, from, Len(txt))

NoContrastElements(txt) ==
    \A m \in 1..Len(txt) :
        txt[m].t \notin {"feat_contrast_prolog.tcl", "feat_contrast_element.tcl",
                         "feat_contrastmask_element.tcl"}

C10_EmptyContrasts ==
    [][(pc = "sections" /\ inputs.contrasts = <<>>) =>
          /\ pc' = "fsf"
          /\ err' = "none"
          /\ NoContrastElements(ev_txt')
          /\ AfterOrtho(ev_txt') =
                <<ContrastHeader, ContrastmaskHeader, ContrastmaskFooter>>]_vars

C10_Witness ==
    /\ Returned
    /\ inputs.contrasts = <<>>
    /\ NumEntities(RunAt(i)) >= 1
    /\ err = "none"

\* C10 as first stated: the text of a run without contrasts holds a contrast
\* header, a contrast footer, a mask header and a mask footer, in this order
C10_AsStated ==
    (Returned /\ inputs.contrasts = <<>>) =>
        /\ NoContrastElements(ev_txt)
        /\ \E a, b, c, d \in 1..Len(ev_txt) :
              /\ a < b /\ b < c /\ c < d
              /\ ev_txt[a].t = "feat_contrast_header.tcl"
              /\ ev_txt[b].t = "feat_contrast_footer.tcl"
              /\ ev_txt[c].t = "feat_contrastmask_header.tcl"
              /\ ev_txt[d].t = "feat_contrastmask_footer.tcl"

(***************************************************************************)
(* C11.  Whatever the register trait is, unset included, _run_interface    *)
(* never stops for want of the registration parameters: every document is  *)
(* written with register 0 when the trait is unset or false, and with      *)
(* register 1 and the given or the standard reference image when it is     *)
(* true, and a run that returns has written run<i>.fsf for every run.      *)
(***************************************************************************)
C11_RegistrationDefault ==
    /\ err # "UnboundLocalError"
    /\ \A n \in 1..Len(disk) :
          disk[n].kind = "fsf" =>
              LET header == disk[n].text[1]
                  on == isdefined(inputs.register) /\ inputs.register[1]
              IN  /\ header.register = IF on THEN 1 ELSE 0
                  /\ on => header.reg_image =
                              IF isdefined(inputs.reg_image)
                              THEN inputs.reg_image[1] ELSE StandardImage
    /\ pc = "done" =>
          WrittenFsfPaths = [n \in 1..Len(inputs.session_info) |->
                               FsfFileName(Cwd, n - 1)]

(***************************************************************************)
(* C12.  No timing file is written for a condition whose duration list has *)
(* more than one element and not as many as its onset list: the run stops  *)
(* with an error instead.                                                  *)
(***************************************************************************)
Malformed(cond) ==
    Len(cond.duration) > 1 /\ Len(cond.duration) # Len(cond.onset)

C12_MalformedRejected ==
    \A n \in 1..Len(disk) :
        disk[n].kind = "cond" =>
            ~Malformed(inputs.session_info[disk[n].run + 1].cond[disk[n].idx])

(***************************************************************************)
(* C13: the header of a design document counts the contrasts of kind 'T'   *)
(* in num_tcon and those of kind 'F' in num_fcon, a contrast of another    *)
(* kind in neither and without aborting the run (only a failing write      *)
(* ends it), while the body has a row in each pass and the mask elements   *)
(* of every contrast of the list, whatever its kind.                       *)
(***************************************************************************)
KindIndices(kinds) ==
    {j \in 1..Len(inputs.contrasts) : inputs.contrasts[j].stat \in kinds}

C13_HeaderCounts ==
    /\ err \in {"none", "IOError"}
    /\ \A n \in 1..Len(disk) :
          disk[n].kind = "fsf" =>
              LET txt == disk[n].text
                  ncon == Len(inputs.contrasts)
                  prologs == TemplatesOf(txt, "feat_contrast_prolog.tcl")
                  masks == TemplatesOf(txt, "feat_contrastmask_element.tcl")
              IN  /\ txt[1].num_tcon = Cardinality(KindIndices({"T"}))
                  /\ txt[1].num_fcon = Cardinality(KindIndices({"F"}))
                  /\ [m \in 1..Len(prologs) |-> <<prologs[m].ctype, prologs[m].cnum>>]
                        = [m \in 1..ncon |-> <<"real", m>>]
                          \o [m \in 1..ncon |-> <<"orig", m>>]
                  /\ {<<masks[m].c1, masks[m].c2>> : m \in 1..Len(masks)}
                        = {<<j, l>> \in (1..ncon) \X (1..ncon) : j # l}
                  /\ Len(masks) = ncon * (ncon - 1)

\* a finished run whose list holds a contrast that is neither T nor F next
\* to one that is, its document written
C13_Witness ==
    /\ pc = "done"
    /\ KindIndices({"T", "F"}) # {}
    /\ KindIndices({"T", "F"}) # 1..Len(inputs.contrasts)
    /\ \E n \in 1..Len(disk) :
          /\ disk[n].kind = "fsf"
          /\ disk[n].text[1].num_tcon + disk[n].text[1].num_fcon
                < Len(inputs.contrasts)

(***************************************************************************)
(* C14: the names of the timing files written in one invocation are        *)
(* pairwise distinct over all EVs of all runs, also when entities of a run *)
(* share a name, and within a run the ordinal in the name strictly         *)
(* increases from each timing file written to the next.                    *)
(***************************************************************************)
\* the condition or regressor a timing file on disk was written for
EntityOf(f) ==
    IF f.kind = "cond" THEN inputs.session_info[f.run + 1].cond[f.idx]
    ELSE inputs.session_info[f.run + 1].regress[f.idx]

RECURSIVE DecimalValue(_)
\* the number a string of decimal digits denotes
DecimalValue(digits) ==
    IF digits = <<>> THEN 0
    ELSE 10 * DecimalValue(SubSeq(digits, 1, Len(digits) - 1))
         + (CHOOSE d \in 0..9 : DigitChars[d + 1] = digits[Len(digits)])

\* the number between the last '_' and the '.txt' of a timing-file name
OrdinalOf(path) ==
    LET last == CHOOSE n \in 1..Len(path) :
                    path[n] = "_" /\ \A m \in (n + 1)..Len(path) : path[m] # "_"
    IN  DecimalValue(SubSeq(path, last + 1, Len(path) - 4))

C14_DistinctNames ==
    \A m, n \in 1..Len(disk) :
        (m < n /\ disk[m].kind # "fsf" /\ disk[n].kind # "fsf") =>
            /\ disk[m].path # disk[n].path
            /\ disk[m].run = disk[n].run =>
                  OrdinalOf(disk[m].path) < OrdinalOf(disk[n].path)

\* a condition and a later condition or regressor of the same run share a
\* name and both have their timing file written
C14_Witness ==
    \E m, n \in 1..Len(disk) :
        /\ m < n
        /\ disk[m].kind = "cond"
        /\ disk[n].kind \in {"cond", "regress"}
        /\ disk[m].run = disk[n].run
        /\ EntityOf(disk[m]).name = EntityOf(disk[n]).name

(***************************************************************************)
(* C15: a timing file has one line per event record, in order: for a       *)
(* condition one line per onset, of the three fields onset, duration and   *)
(* the amplitude 1; for a regressor one line per value, of that one field; *)
(* the file of a condition with no onset exists and is empty.              *)
(***************************************************************************)
C15_OneLinePerRecord ==
    \A n \in 1..Len(disk) :
        LET f == disk[n]
            e == EntityOf(f)
        IN  /\ f.kind = "cond" =>
                  /\ Len(f.text) = Len(e.onset)
                  /\ \A m \in 1..Len(f.text) :
                        /\ Len(f.text[m]) = 3
                        /\ f.text[m][1] = PctF(e.onset[m])
                        /\ \E d \in Range(e.duration) : f.text[m][2] = PctF(d)
                        /\ f.text[m][3] = <<"1", ".", "0", "0", "0", "0", "0", "0">>
                  /\ e.onset = <<>> => f.text = <<>>
            /\ f.kind = "regress" =>
                  /\ Len(f.text) = Len(e.val)
                  /\ \A m \in 1..Len(f.text) : f.text[m] = <<PctF(e.val[m])>>

\* the timing file of a condition without onsets is written, and is empty
C15_Witness ==
    \E n \in 1..Len(disk) :
        /\ disk[n].kind = "cond"
        /\ EntityOf(disk[n]).onset = <<>>
        /\ disk[n].text = <<>>
        /\ disk[n].path = EvFileName(Cwd, A, 0, 1)

(***************************************************************************)
(* C16: the runs are processed strictly in index order: all timing files   *)
(* of run i are written before run<i>.fsf, and run<i>.fsf is written       *)
(* before any timing file of run i + 1.                                    *)
(***************************************************************************)
\* the positions before n of the files of run r of the given kinds
WrittenBefore(n, r, kinds) ==
    {m \in 1..(n - 1) : disk[m].run = r /\ disk[m].kind \in kinds}

C16_RunsInOrder ==
    \A n \in 1..Len(disk) :
        LET r == disk[n].run
            run == inputs.session_info[r + 1]
        IN  /\ \A m \in 1..(n - 1) : disk[m].run <= r
            /\ disk[n].kind = "fsf" =>
                  /\ disk[n].path = FsfFileName(Cwd, r)
                  /\ Cardinality(WrittenBefore(n, r, {"cond", "regress"}))
                        = Len(run.cond) + Len(run.regress)
                  /\ \A m \in 1..Len(disk) : m > n => disk[m].run > r
            /\ disk[n].kind # "fsf" =>
                  \A q \in 0..(r - 1) :
                      Cardinality(WrittenBefore(n, q, {"fsf"})) = 1

\* two runs, each of a condition and a regressor at least, are done
C16_Witness ==
    /\ pc = "done"
    /\ Len(inputs.session_info) >= 2
    /\ \A n \in 1..Len(inputs.session_info) :
          /\ inputs.session_info[n].cond # <<>>
          /\ inputs.session_info[n].regress # <<>>
    /\ \E m, n \in 1..Len(disk) :
          /\ m < n
          /\ disk[m].kind = "fsf"
          /\ disk[n].kind = "cond"

(***************************************************************************)
(* C17: fail-fast without cleanup.  A step of run i that fails (a timing   *)
(* file or document that cannot be written, an image that cannot be read,  *)
(* a malformed condition) ends the invocation with its error: nothing      *)
(* happens after it (no retry, no file of a later run), and the failing    *)
(* step leaves every file written before it on disk unchanged; these are   *)
(* files of the runs up to i only.  No step ever changes or removes a      *)
(* file written before.                                                    *)
(***************************************************************************)
C17_FailFast ==
    [][/\ pc # "raised"
       /\ Len(disk') >= Len(disk)
       /\ SubSeq(disk', 1, Len(disk)) = disk
       /\ (err' # "none") <=> (pc' = "raised")
       /\ pc' = "raised" =>
             /\ disk' = disk
             /\ i' = i
             /\ \A n \in 1..Len(disk) : disk[n].run <= i
             /\ \A n \in 1..Len(disk) : disk[n].kind = "fsf" => disk[n].run < i]_vars

\* a later run has failed after a timing file of its own was written, the
\* files of the runs before it on disk
C17_Witness ==
    /\ pc = "raised"
    /\ err # "none"
    /\ i >= 1
    /\ \E n \in 1..Len(disk) : disk[n].run = i /\ disk[n].kind # "fsf"
    /\ \A q \in 0..(i - 1) : \E n \in 1..Len(disk) :
          disk[n].run = q /\ disk[n].kind = "fsf"

(***************************************************************************)
(* C18: when _create_ev_files has returned for a run, exactly num_evs[0]   *)
(* timing files of the run are written, one per condition and one per      *)
(* regressor; with derivatives the 'TD' EV of a condition follows it       *)
(* immediately in evname, is counted in num_evs[1] only, and has neither a *)
(* timing file nor an EV block of its own.                                 *)
(***************************************************************************)
\* the timing files of the run the loop is at, in the order of their writing
EvFilesOfRun == SelectSeq(disk, LAMBDA f : f.run = i /\ f.kind # "fsf")

\* the EV blocks of a text, in the order emitted
EvBlocks(txt) ==
    SelectSeq(txt, LAMBDA x : x.t \in {"feat_ev_hrf.tcl", "feat_ev_none.tcl"})

C18_PrimaryFiles ==
    Returned =>
        LET run == RunAt(i)
            primary == PrimaryEvNames(run)
            files == EvFilesOfRun
            blocks == EvBlocks(ev_txt)
        IN  /\ num_evs[1] = Len(run.cond) + Len(run.regress)
            /\ Len(files) = num_evs[1]
            /\ [n \in 1..Len(files) |-> EntityOf(files[n]).name] = primary
            /\ [n \in 1..Len(files) |-> <<files[n].kind, files[n].idx>>]
                  = [n \in 1..Len(run.cond) |-> <<"cond", n>>]
                    \o [n \in 1..Len(run.regress) |-> <<"regress", n>>]
            /\ evname = AllEvNames(run, inputs.derivs)
            /\ num_evs[2] = Len(evname)
            /\ num_evs[2] - num_evs[1]
                  = IF inputs.derivs THEN Len(run.cond) ELSE 0
            /\ [n \in 1..Len(blocks) |-> blocks[n].ev_name] = primary

\* a run of conditions and a regressor has returned with derivatives on
C18_Witness ==
    /\ Returned
    /\ inputs.derivs
    /\ Len(RunAt(i).cond) >= 2
    /\ Len(RunAt(i).regress) >= 1
    /\ Len(evname) > Len(EvFilesOfRun)
    /\ Len(EvFilesOfRun) = 3

(***************************************************************************)
(* C19: when _create_ev_files has returned for a run, its EV blocks are    *)
(* those of the conditions, in input order, followed by those of the       *)
(* regressors, in input order; the k-th block carries the EV index k, with *)
(* or without derivatives, and names the path of the timing file written   *)
(* for its own condition or regressor.                                     *)
(***************************************************************************)
\* the path of the timing file on disk of entity idx of a kind of run i
PathWritten(kind, idx) ==
    {f.path : f \in {g \in Range(disk) :
                        g.run = i /\ g.kind = kind /\ g.idx = idx}}

C19_BlocksInOrder ==
    Returned =>
        LET run == RunAt(i)
            nc == Len(run.cond)
            blocks == EvBlocks(ev_txt)
        IN  /\ Len(blocks) = nc + Len(run.regress)
            /\ \A n \in 1..Len(blocks) :
                  /\ blocks[n].ev_num = n
                  /\ IF n <= nc
                     THEN /\ blocks[n].t = "feat_ev_hrf.tcl"
                          /\ blocks[n].ev_name = run.cond[n].name
                          /\ blocks[n].temporalderiv
                                = IF inputs.derivs THEN 1 ELSE 0
                          /\ PathWritten("cond", n) = {blocks[n].cond_file}
                     ELSE /\ blocks[n].t = "feat_ev_none.tcl"
                          /\ blocks[n].ev_name = run.regress[n - nc].name
                          /\ PathWritten("regress", n - nc)
                                = {blocks[n].cond_file}

\* a second run of two conditions and a regressor has returned with
\* derivatives on
C19_Witness ==
    /\ Returned
    /\ i = 1
    /\ inputs.derivs
    /\ Len(RunAt(i).cond) = 2
    /\ Len(RunAt(i).regress) = 1
    /\ Len(EvBlocks(ev_txt)) = 3
    /\ EvBlocks(ev_txt)[3].cond_file = EvFileName(Cwd, R, 1, 5)

(***************************************************************************)
(* C20: every design document written has one fixed order: the document    *)
(* header; one block per primary EV; the orthogonalisation table; the      *)
(* contrast header and the contrasts of the 'real' pass, then those of the *)
(* 'orig' pass, in each pass the contrasts in list order under their       *)
(* 1-based positions, each prolog followed by its own elements; the mask   *)
(* header, the mask elements and the mask footer; the closing directive.   *)
(***************************************************************************)
\* the place of a piece of text in the order of the document
Phase(x) ==
    CASE x.t = "feat_header_l1.tcl" -> 1
      [] x.t \in {"feat_ev_hrf.tcl", "feat_ev_none.tcl"} -> 2
      [] x.t = "feat_ev_ortho.tcl" -> 3
      [] x.t = "feat_contrast_header.tcl" -> 4
      [] x.t \in {"feat_contrast_prolog.tcl", "feat_contrast_element.tcl"} ->
            (IF x.ctype = "real" THEN 5 ELSE 6)
      [] x.t = "feat_contrastmask_header.tcl" -> 7
      [] x.t = "feat_contrastmask_element.tcl" -> 8
      [] x.t = "feat_contrastmask_footer.tcl" -> 9
      [] x.t = "feat_nongui.tcl" -> 10
      [] OTHER -> 0

\* a text without its line breaks
Pieces(txt) == SelectSeq(txt, LAMBDA x : x.t # "\n")

\* the contrasts of one pass are in list order, each prolog before its
\* elements
PassInOrder(pieces, phase, ncon) ==
    LET pass == SelectSeq(pieces, LAMBDA x : Phase(x) = phase)
        prologs == TemplatesOf(pass, "feat_contrast_prolog.tcl")
    IN  /\ [n \in 1..Len(prologs) |-> prologs[n].cnum] = [n \in 1..ncon |-> n]
        /\ \A n \in 1..(Len(pass) - 1) : pass[n].cnum <= pass[n + 1].cnum
        /\ \A n \in 1..Len(pass) :
              pass[n].t = "feat_contrast_element.tcl" =>
                  /\ n > 1
                  /\ pass[n - 1].cnum = pass[n].cnum

C20_DocumentOrder ==
    \A n \in 1..Len(disk) :
        disk[n].kind = "fsf" =>
            LET pieces == Pieces(disk[n].text)
                once == {1, 4, 7, 9, 10}
            IN  /\ \A m \in 1..Len(pieces) : Phase(pieces[m]) \in 1..10
                /\ \A m \in 1..(Len(pieces) - 1) :
                      Phase(pieces[m]) <= Phase(pieces[m + 1])
                /\ \A p \in once :
                      Cardinality({m \in 1..Len(pieces) :
                                      Phase(pieces[m]) = p}) = 1
                /\ Len(EvBlocks(pieces)) = pieces[1].num_evs
                /\ PassInOrder(pieces, 5, Len(inputs.contrasts))
                /\ PassInOrder(pieces, 6, Len(inputs.contrasts))

\* a document of several EV blocks, an orthogonalisation table, several
\* contrasts with elements in both passes and mask elements is written
C20_Witness ==
    \E n \in 1..Len(disk) :
        /\ disk[n].kind = "fsf"
        /\ \A p \in 1..10 : \E m \in 1..Len(disk[n].text) :
              Phase(disk[n].text[m]) = p
        /\ Len(EvBlocks(disk[n].text)) >= 2
        /\ Len(inputs.contrasts) >= 2
        /\ Len(RowOf(disk[n].text, "real", 2)) > Len(RowOf(disk[n].text, "orig", 2))
        /\ Len(RowOf(disk[n].text, "orig", 2)) >= 2

(***************************************************************************)
(* C21: for an F contrast, whose third field lists T contrast tuples, each *)
(* design document has a prolog and a full row in both passes (one element *)
(* per column of the pass, numbered from 1) and every element of the row   *)
(* is 0, whatever weights its T contrasts declare; the text holds no       *)
(* grouping of T contrasts under the F contrast: nothing but the header,   *)
(* EV blocks, orthogonalisation, contrast, mask and closing templates.     *)
(***************************************************************************)
\* the T contrasts of an F contrast declare a weight other than 0 for an EV
ConstituentWeighs(con, names) ==
    \E q \in 1..Len(con.conds) : \E nm \in Range(names) :
        DeclaredWeight(con.conds[q], nm) # 0

C21_FContrastRows ==
    \A n \in 1..Len(disk) :
        disk[n].kind = "fsf" =>
            LET txt == disk[n].text
                names == AllEvNames(inputs.session_info[disk[n].run + 1],
                                    inputs.derivs)
                width == [ctype \in {"real", "orig"} |->
                            IF ctype = "real" THEN Len(names)
                            ELSE Len(NotTDNames(names))]
            IN  /\ \A m \in 1..Len(txt) : txt[m].t = "\n" \/ Phase(txt[m]) \in 1..10
                /\ \A j \in 1..Len(inputs.contrasts) :
                      inputs.contrasts[j].stat = "F" =>
                          \A ctype \in {"real", "orig"} :
                              LET row == RowOf(txt, ctype, j)
                              IN  /\ \E m \in 1..Len(txt) :
                                        txt[m] = ContrastProlog(j, ctype,
                                                    inputs.contrasts[j].name)
                                  /\ Len(row) = width[ctype]
                                  /\ \A c \in 1..Len(row) :
                                        /\ row[c].element = c
                                        /\ row[c].val = 0

\* a document is written for a list with an F contrast whose T contrasts
\* weigh EVs of the run, its rows of two elements or more
C21_Witness ==
    \E n \in 1..Len(disk) : \E j \in 1..Len(inputs.contrasts) :
        /\ disk[n].kind = "fsf"
        /\ inputs.contrasts[j].stat = "F"
        /\ ConstituentWeighs(inputs.contrasts[j],
              AllEvNames(inputs.session_info[disk[n].run + 1], inputs.derivs))
        /\ Len(RowOf(disk[n].text, "real", j)) >= 2
        /\ Len(RowOf(disk[n].text, "orig", j)) >= 2

=============================================================================
